---- MODULE Spec2Model ----
(***************************************************************************)
(* Boolean retrieval over a manually built inverted index                  *)
(* (src/bool_retr.py), with the text normalizer of src/temp.py.            *)
(*                                                                         *)
(* A Python str is a sequence of one-character strings, so that strip,     *)
(* lower, substring search, split and string comparison are computed the   *)
(* way Python computes them.                                               *)
(***************************************************************************)
EXTENDS Integers, Sequences, FiniteSets, TLC

VARIABLES index_reader, internal_docid, inverted_index, documents, pc,
          query, max_results, results

vars == <<index_reader, internal_docid, inverted_index, documents, pc,
          query, max_results, results>>

(***************************************************************************)
(* Bounds.                                                                 *)
(***************************************************************************)
MaxDocs == 2
MaxTokens == 3
MaxLimit == 1

(* search_boolean's default for max_results *)
DefaultMaxResults == 100

(* The collection ids of the modelled store are d9, d10, d11, ...: a run of *)
(* ids that crosses from one digit to two.                                 *)
FirstDocNumber == 9

(***************************************************************************)
(* The outcome of a call into the index reader: a value, None, or a raised *)
(* exception.                                                              *)
(***************************************************************************)
Value(v) == [raised |-> FALSE, none |-> FALSE, value |-> v]
None == [raised |-> FALSE, none |-> TRUE, value |-> <<>>]
Raise == [raised |-> TRUE, none |-> FALSE, value |-> <<>>]

(***************************************************************************)
(* str primitives.                                                         *)
(***************************************************************************)
SetMin(S) == CHOOSE x \in S : \A y \in S : x <= y
SetMax(S) == CHOOSE x \in S : \A y \in S : x >= y

UpperChars == <<"A","B","C","D","E","F","G","H","I","J","K","L","M",
                "N","O","P","Q","R","S","T","U","V","W","X","Y","Z">>
LowerChars == <<"a","b","c","d","e","f","g","h","i","j","k","l","m",
                "n","o","p","q","r","s","t","u","v","w","x","y","z">>
DigitChars == <<"0","1","2","3","4","5","6","7","8","9">>

(* code points, in increasing order, of the characters the model uses *)
CodePointOrder == <<" ", "(", ")", "-", ".">> \o DigitChars \o UpperChars
                    \o <<"_">> \o LowerChars

Ord(c) == CHOOSE i \in 1..Len(CodePointOrder) : CodePointOrder[i] = c

IsSpace(c) == c = " "

IsWordChar(c) ==
    \/ \E i \in 1..Len(UpperChars) : UpperChars[i] = c \/ LowerChars[i] = c
    \/ \E i \in 1..Len(DigitChars) : DigitChars[i] = c
    \/ c = "_"

LowerChar(c) ==
    IF \E i \in 1..Len(UpperChars) : UpperChars[i] = c
    THEN LowerChars[CHOOSE i \in 1..Len(UpperChars) : UpperChars[i] = c]
    ELSE c

(* str.lower() *)
Lower(s) == [i \in 1..Len(s) |-> LowerChar(s[i])]

(* str.strip() *)
Strip(s) ==
    LET keep == {i \in 1..Len(s) : ~IsSpace(s[i])}
    IN  IF keep = {} THEN <<>> ELSE SubSeq(s, SetMin(keep), SetMax(keep))

(* str.find(sub, from): the least position >= from where sub occurs, 0 if none *)
Find(s, sub, from) ==
    LET at == {i \in from..(Len(s) - Len(sub) + 1) :
                  SubSeq(s, i, i + Len(sub) - 1) = sub}
    IN  IF at = {} THEN 0 ELSE SetMin(at)

(* the `sub in s` test *)
Contains(s, sub) == Find(s, sub, 1) # 0

(* str.split(sep): every non-overlapping occurrence, left to right *)
RECURSIVE Split(_, _)
Split(s, sep) ==
    LET i == Find(s, sep, 1)
    IN  IF i = 0 THEN <<s>>
        ELSE <<SubSeq(s, 1, i - 1)>> \o Split(SubSeq(s, i + Len(sep), Len(s)), sep)

(* str.split() without a separator: the maximal runs of non-whitespace *)
RECURSIVE SplitWhitespace(_)
SplitWhitespace(s) ==
    LET t == Strip(s)
        sp == {i \in 1..Len(t) : IsSpace(t[i])}
    IN  IF t = <<>> THEN <<>>
        ELSE IF sp = {} THEN <<t>>
        ELSE <<SubSeq(t, 1, SetMin(sp) - 1)>>
                 \o SplitWhitespace(SubSeq(t, SetMin(sp), Len(t)))

(* sep.join(parts) *)
RECURSIVE Join(_, _)
Join(sep, parts) ==
    IF parts = <<>> THEN <<>>
    ELSE IF Len(parts) = 1 THEN parts[1]
    ELSE parts[1] \o sep \o Join(sep, Tail(parts))

(* the < of two str: by code point at the first difference, else by length *)
StrLess(a, b) ==
    LET n == IF Len(a) < Len(b) THEN Len(a) ELSE Len(b)
        diff == {i \in 1..n : a[i] # b[i]}
    IN  IF diff = {} THEN Len(a) < Len(b)
        ELSE Ord(a[SetMin(diff)]) < Ord(b[SetMin(diff)])

(* sorted(list(S)) for a set of str *)
RECURSIVE Sorted(_)
Sorted(S) ==
    IF S = {} THEN <<>>
    ELSE LET least == CHOOSE x \in S : \A y \in S \ {x} : StrLess(x, y)
         IN  <<least>> \o Sorted(S \ {least})

(* xs[:n] for n >= 0 *)
Take(xs, n) == SubSeq(xs, 1, IF n < Len(xs) THEN n ELSE Len(xs))

(* the elements of a list *)
Range(xs) == {xs[i] : i \in 1..Len(xs)}

(* str(n) for n >= 0 *)
RECURSIVE DecimalStr(_)
DecimalStr(n) ==
    IF n < 10 THEN <<DigitChars[n + 1]>>
    ELSE DecimalStr(n \div 10) \o <<DigitChars[(n % 10) + 1]>>

(***************************************************************************)
(* The text normalizer (src/temp.py).                                      *)
(***************************************************************************)
stopwords == {
    <<"a">>, <<"a","n">>, <<"a","n","d">>, <<"a","r","e">>, <<"a","s">>,
    <<"a","t">>, <<"b","e">>, <<"b","u","t">>, <<"b","y">>, <<"f","o","r">>,
    <<"i","f">>, <<"i","n">>, <<"i","n","t","o">>, <<"i","s">>, <<"i","t">>,
    <<"n","o">>, <<"n","o","t">>, <<"o","f">>, <<"o","n">>, <<"o","r">>,
    <<"s","u","c","h">>, <<"t","h","a","t">>, <<"t","h","e">>,
    <<"t","h","e","i","r">>, <<"t","h","e","n">>, <<"t","h","e","r","e">>,
    <<"t","h","e","s","e">>, <<"t","h","e","y">>, <<"t","h","i","s">>,
    <<"t","o">>, <<"w","a","s">>, <<"w","i","l","l">>, <<"w","i","t","h">> }

EndsWith(s, suffix) ==
    /\ Len(s) >= Len(suffix)
    /\ SubSeq(s, Len(s) - Len(suffix) + 1, Len(s)) = suffix

(* The Porter stemmer on one lower-case token, as far as the vocabulary    *)
(* of the model exercises it: tokens of one or two letters are left alone, *)
(* and step 1a removes a plural ending (sses -> ss, ies -> i, ss -> ss,    *)
(* s -> nothing).  No later step applies to cat, dog, dogs or emu.         *)
PorterStem(token) ==
    IF Len(token) <= 2 THEN token
    ELSE IF EndsWith(token, <<"s","s","e","s">>) THEN SubSeq(token, 1, Len(token) - 2)
    ELSE IF EndsWith(token, <<"i","e","s">>) THEN SubSeq(token, 1, Len(token) - 2)
    ELSE IF EndsWith(token, <<"s","s">>) THEN token
    ELSE IF EndsWith(token, <<"s">>) THEN SubSeq(token, 1, Len(token) - 1)
    ELSE token

(* stemmer_analyzer.analyze(token): the list of stems, empty for a token   *)
(* the analyzer drops                                                      *)
Analyze(token) ==
    IF token \in stopwords THEN <<>> ELSE <<PorterStem(token)>>

(* re.sub(r'[^\w\s]', ' ', text) *)
StripPunctuation(text) ==
    [i \in 1..Len(text) |->
        IF IsWordChar(text[i]) \/ IsSpace(text[i]) THEN text[i] ELSE " "]

SelectNotStopword(tokens) == SelectSeq(tokens, LAMBDA w : w \notin stopwords)

StemTokens(tokens) ==
    [i \in 1..Len(tokens) |->
        IF Analyze(tokens[i]) # <<>> THEN Analyze(tokens[i])[1] ELSE tokens[i]]

preprocess_document(document_text) ==
    LET text == Lower(document_text)
        tokens == SplitWhitespace(StripPunctuation(text))
        filtered_tokens == SelectNotStopword(tokens)
        stemmed_tokens == StemTokens(filtered_tokens)
    IN  Join(<<" ">>, stemmed_tokens)

(* the normalized terms of a text *)
NormalizedTerms(text) == Range(SplitWhitespace(preprocess_document(text)))

(***************************************************************************)
(* The index store that LuceneIndexReader opens (built by src/indexing.py  *)
(* with stored contents, stored document vectors and the Porter stemmer).  *)
(* A store is a list of entries, one per internal docid; an entry holds    *)
(* the collection id, the stored contents and the way the reader answers   *)
(* for it.                                                                 *)
(***************************************************************************)
Faults == {"ok", "convert_raises", "doc_raises", "doc_none", "contents_none",
           "vector_raises", "vector_none"}

W_cat == <<"c","a","t">>
W_dog == <<"d","o","g">>
W_dogs == <<"d","o","g","s">>
W_emu == <<"e","m","u">>
W_and == <<"a","n","d">>
W_or == <<"o","r">>
W_not == <<"n","o","t">>

(* stored contents: "", "The cat.", "Dogs cat", "dog emu" *)
Contents == { <<>>,
              <<"T","h","e"," ">> \o W_cat \o <<".">>,
              <<"D","o","g","s"," ">> \o W_cat,
              W_dog \o <<" ">> \o W_emu }

(* the collection id of the entry at internal docid i (from 0): d9, d10, ... *)
CollectionDocid(i) == <<"d">> \o DecimalStr(FirstDocNumber + i)

Entries(faults) ==
    [fault : faults, contents : Contents]

Readers(faults) ==
    UNION { [1..n -> Entries(faults)] : n \in 0..MaxDocs }

(* index_reader.stats()['documents'] *)
StatsDocuments(reader) == Len(reader)

(* index_reader.convert_internal_docid_to_collection_docid(internal) *)
ConvertInternalDocid(reader, internal) ==
    IF reader[internal + 1].fault = "convert_raises" THEN Raise
    ELSE Value(CollectionDocid(internal))

(* index_reader.doc(collection_docid), for the entry at `internal` *)
ReaderDoc(reader, internal) ==
    CASE reader[internal + 1].fault = "doc_raises" -> Raise
      [] reader[internal + 1].fault = "doc_none" -> None
      [] OTHER -> Value(reader[internal + 1])

(* doc.contents() *)
DocContents(doc) ==
    IF doc.fault = "contents_none" THEN None ELSE Value(doc.contents)

(* index_reader.get_document_vector(collection_docid): the keys of the     *)
(* term-frequency map, which are the analyzed (stop-filtered, stemmed)     *)
(* terms of the stored contents; None when no vector is stored.            *)
GetDocumentVector(reader, internal) ==
    CASE reader[internal + 1].fault = "vector_raises" -> Raise
      [] reader[internal + 1].fault \in {"vector_none", "contents_none"} -> None
      [] OTHER -> Value(NormalizedTerms(reader[internal + 1].contents))

(***************************************************************************)
(* build_inverted_index                                                    *)
(***************************************************************************)
EmptyDict == <<>>

(* d[key] = value *)
DictPut(d, key, value) ==
    [k \in DOMAIN d \cup {key} |-> IF k = key THEN value ELSE d[k]]

(* lines 50-53: add collection_docid to the postings of every term *)
AddPostings(index, terms, collection_docid) ==
    [t \in DOMAIN index \cup terms |->
        (IF t \in DOMAIN index THEN index[t] ELSE {})
            \cup (IF t \in terms THEN {collection_docid} ELSE {})]

(* lines 41-44: doc.contents(), with None replaced by "" *)
StoredContent(doc) ==
    IF DocContents(doc).none THEN <<>> ELSE DocContents(doc).value

(* lines 48-53: the index after the document vector of the entry is read;  *)
(* a raise leaves the loop body for the except clause                      *)
IndexAfterVector(index, doc_vector, collection_docid) ==
    IF doc_vector.raised THEN index
    ELSE IF doc_vector.none \/ doc_vector.value = {} THEN index
    ELSE AddPostings(index, doc_vector.value, collection_docid)

(* the document store after one pass of the loop body (lines 34-60) *)
DocumentsAfter(docs, reader, internal) ==
    LET collection_docid == ConvertInternalDocid(reader, internal)
        doc == ReaderDoc(reader, internal)
    IN  IF collection_docid.raised THEN docs
        ELSE IF doc.raised THEN docs
        ELSE IF doc.none THEN DictPut(docs, collection_docid.value, <<>>)
        ELSE DictPut(docs, collection_docid.value, StoredContent(doc.value))

(* the inverted index after one pass of the loop body (lines 34-60) *)
IndexAfter(index, reader, internal) ==
    LET collection_docid == ConvertInternalDocid(reader, internal)
        doc == ReaderDoc(reader, internal)
    IN  IF collection_docid.raised THEN index
        ELSE IF doc.raised \/ doc.none THEN index
        ELSE IndexAfterVector(index, GetDocumentVector(reader, internal),
                              collection_docid.value)

(* one pass of `for internal_docid in range(total_docs)` *)
BuildDoc ==
    /\ pc = "build"
    /\ internal_docid < StatsDocuments(index_reader)
    /\ documents' = DocumentsAfter(documents, index_reader, internal_docid)
    /\ inverted_index' = IndexAfter(inverted_index, index_reader, internal_docid)
    /\ internal_docid' = internal_docid + 1
    /\ UNCHANGED <<index_reader, pc, query, max_results, results>>

(* the loop is exhausted: build_inverted_index returns (lines 62-64) *)
BuildDone ==
    /\ pc = "build"
    /\ internal_docid = StatsDocuments(index_reader)
    /\ pc' = "ready"
    /\ UNCHANGED <<index_reader, internal_docid, inverted_index, documents,
                   query, max_results, results>>

(***************************************************************************)
(* Query evaluation.  Each step returns the set of documents it computed   *)
(* together with the inverted index it leaves behind, so that a write to   *)
(* the index during a lookup would show in the state.                      *)
(***************************************************************************)
SEP_and_not == <<" ">> \o W_and \o <<" ">> \o W_not \o <<" ">>
SEP_and == <<" ">> \o W_and \o <<" ">>
SEP_or == <<" ">> \o W_or \o <<" ">>
SEP_not == <<" ">> \o W_not \o <<" ">>

Evaluated(docs, index) == [docs |-> docs, index |-> index]

(* _get_documents_for_term with the lookup written as                      *)
(* self.inverted_index.setdefault(term, set()): an unknown term gains a key *)
GetDocumentsForTerm_SetDefault(index, rawterm) ==
    LET term == Lower(Strip(rawterm))
        written == IF term \in DOMAIN index THEN index
                   ELSE [t \in DOMAIN index \cup {term} |->
                            IF t = term THEN {} ELSE index[t]]
    IN  [docs |-> written[term], index |-> written]

(* _get_documents_for_term: a membership test and a copy of the postings *)
GetDocumentsForTerm(index, rawterm) ==
    LET term == Lower(Strip(rawterm))
    IN  IF term \in DOMAIN index THEN Evaluated(index[term], index)
        ELSE Evaluated({}, index)

(* [term.strip() for term in query.split(sep)] *)
StrippedParts(q, sep) ==
    LET parts == Split(q, sep) IN [i \in 1..Len(parts) |-> Strip(parts[i])]

(* lines 117-119: intersect with the documents of terms[k..] *)
RECURSIVE AndLoop(_, _, _)
AndLoop(acc, terms, k) ==
    IF k > Len(terms) THEN acc
    ELSE LET term_docs == GetDocumentsForTerm(acc.index, terms[k])
         IN  AndLoop(Evaluated(acc.docs \cap term_docs.docs, term_docs.index),
                     terms, k + 1)

(* _handle_and with the loop over terms[2:] instead of terms[1:] *)
HandleAnd_SkipsSecond(index, q) ==
    LET terms == StrippedParts(q, SEP_and)
    IN  IF terms = <<>> THEN Evaluated({}, index)
        ELSE AndLoop(GetDocumentsForTerm(index, terms[1]), terms, 3)

(* _handle_and *)
HandleAnd(index, q) ==
    LET terms == StrippedParts(q, SEP_and)
    IN  IF terms = <<>> THEN Evaluated({}, index)
        ELSE AndLoop(GetDocumentsForTerm(index, terms[1]), terms, 2)

(* lines 130-132: unite with the documents of terms[k..] *)
RECURSIVE OrLoop(_, _, _)
OrLoop(acc, terms, k) ==
    IF k > Len(terms) THEN acc
    ELSE LET term_docs == GetDocumentsForTerm(acc.index, terms[k])
         IN  OrLoop(Evaluated(acc.docs \cup term_docs.docs, term_docs.index),
                    terms, k + 1)

(* _handle_or *)
HandleOr(index, q) ==
    OrLoop(Evaluated({}, index), StrippedParts(q, SEP_or), 1)

(* _handle_not with the guard written as len(parts) < 2 *)
HandleNot_LooseGuard(index, q) ==
    LET parts == Split(q, SEP_not)
    IN  IF Len(parts) < 2 THEN Evaluated({}, index)
        ELSE LET positive_docs == GetDocumentsForTerm(index, Strip(parts[1]))
                 negative_docs == GetDocumentsForTerm(positive_docs.index,
                                                      Strip(parts[2]))
             IN  Evaluated(positive_docs.docs \ negative_docs.docs,
                           negative_docs.index)

(* _handle_not *)
HandleNot(index, q) ==
    LET parts == Split(q, SEP_not)
    IN  IF Len(parts) # 2 THEN Evaluated({}, index)
        ELSE LET positive_docs == GetDocumentsForTerm(index, Strip(parts[1]))
                 negative_docs == GetDocumentsForTerm(positive_docs.index,
                                                      Strip(parts[2]))
             IN  Evaluated(positive_docs.docs \ negative_docs.docs,
                           negative_docs.index)

(* _handle_and_not with query.split(" and not ", 1): one split, at the    *)
(* first occurrence                                                        *)
HandleAndNot_SplitsOnce(index, q) ==
    LET at == Find(q, SEP_and_not, 1)
        left_part == Strip(SubSeq(q, 1, at - 1))
        negative_term == Strip(SubSeq(q, at + Len(SEP_and_not), Len(q)))
        positive_docs ==
            IF Contains(left_part, SEP_and) THEN HandleAnd(index, left_part)
            ELSE GetDocumentsForTerm(index, left_part)
        negative_docs == GetDocumentsForTerm(positive_docs.index, negative_term)
    IN  Evaluated(positive_docs.docs \ negative_docs.docs, negative_docs.index)

(* _handle_and_not *)
HandleAndNot(index, q) ==
    LET parts == Split(q, SEP_and_not)
    IN  IF Len(parts) # 2 THEN Evaluated({}, index)
        ELSE LET left_part == Strip(parts[1])
                 negative_term == Strip(parts[2])
                 positive_docs ==
                     IF Contains(left_part, SEP_and) THEN HandleAnd(index, left_part)
                     ELSE GetDocumentsForTerm(index, left_part)
                 negative_docs ==
                     GetDocumentsForTerm(positive_docs.index, negative_term)
             IN  Evaluated(positive_docs.docs \ negative_docs.docs,
                           negative_docs.index)

(* _parse_boolean_query *)
ParseBooleanQuery(index, rawquery) ==
    LET q == Strip(Lower(rawquery))
    IN  IF Contains(q, SEP_and_not) THEN HandleAndNot(index, q)
        ELSE IF Contains(q, SEP_and) THEN HandleAnd(index, q)
        ELSE IF Contains(q, SEP_or) THEN HandleOr(index, q)
        ELSE IF Contains(q, SEP_not) THEN HandleNot(index, q)
        ELSE GetDocumentsForTerm(index, q)

(* lines 79-81: sorted(list(result_set))[:max_results] *)
FormatResults(result_set, limit) == Take(Sorted(result_set), limit)

(* search_boolean: the returned list and the index left behind *)
SearchBoolean(index, rawquery, limit) ==
    LET q == Strip(rawquery)
    IN  IF q = <<>> THEN [results |-> <<>>, index |-> index]
        ELSE LET result_set == ParseBooleanQuery(index, q)
             IN  [results |-> FormatResults(result_set.docs, limit),
                  index |-> result_set.index]

(***************************************************************************)
(* The queries put to search_boolean.                                      *)
(***************************************************************************)
Sp == <<" ">>
W_AND == <<"A","N","D">>
W_OR == <<"O","R">>
W_NOT == <<"N","O","T">>

TermWords == {W_cat, W_dog, W_emu}

(* the surface forms of the single-term queries *)
SurfaceForms == TermWords \cup
    { W_dogs, <<"D","o","g","s">>, <<"D","O","G">>, <<"C","a","t">> }

(* every list of at most MaxTokens words and lower-case operators *)
QueryTokens == {W_cat, W_dog, W_and, W_or, W_not}

TokenQueries ==
    { Join(Sp, ts) : ts \in UNION { [1..n -> QueryTokens] : n \in 1..MaxTokens } }

(* x OP1 y OP2 z over the term words, with the operators in upper case *)
Chain(parts) == Join(Sp, parts)

ShapedQueries ==
    UNION { { Chain(<<x, W_AND, y>>), Chain(<<x, W_OR, y>>), Chain(<<x, W_NOT, y>>),
              Chain(<<x, W_AND, W_NOT, y>>) } : x \in TermWords, y \in TermWords }
    \cup
    UNION { { Chain(<<x, W_OR, y, W_AND, z>>),
              Chain(<<x, W_AND, y, W_OR, z>>),
              Chain(<<x, W_AND, y, W_AND, W_NOT, z>>),
              Chain(<<x, W_AND, W_NOT, y, W_AND, z>>),
              Chain(<<x, W_AND, W_NOT, y, W_AND, W_NOT, z>>),
              Chain(<<x, W_NOT, y, W_NOT, z>>) }
            : x \in TermWords, y \in TermWords, z \in TermWords }

(* the empty query, blank queries, padded and parenthesized queries *)
OddQueries ==
    { <<>>, Sp, Sp \o Sp \o Sp,
      W_cat \o Sp \o W_not,
      Sp \o W_cat \o Sp,
      W_cat \o Sp \o Sp \o W_AND \o Sp \o Sp \o W_dog,
      <<"(">> \o W_cat \o Sp \o W_OR \o Sp \o W_dog \o <<")">> \o Sp \o W_AND
          \o Sp \o W_emu }

Queries == SurfaceForms \cup TokenQueries \cup ShapedQueries \cup OddQueries

MaxResultsChoices == 0..MaxLimit \cup {DefaultMaxResults}

(* a call search_boolean(q, limit) on the built system, up to its return *)
Search ==
    /\ pc = "ready"
    /\ \E q \in Queries, limit \in MaxResultsChoices :
          /\ query' = q
          /\ max_results' = limit
          /\ results' = SearchBoolean(inverted_index, q, limit).results
          /\ inverted_index' = SearchBoolean(inverted_index, q, limit).index
    /\ pc' = "answered"
    /\ UNCHANGED <<index_reader, internal_docid, documents>>

(* the caller takes the list; the system is ready for the next call *)
Return ==
    /\ pc = "answered"
    /\ pc' = "ready"
    /\ query' = <<>>
    /\ max_results' = DefaultMaxResults
    /\ results' = <<>>
    /\ UNCHANGED <<index_reader, internal_docid, inverted_index, documents>>

(* __init__ (lines 7-14), up to the call of build_inverted_index *)
InitWith(readers) ==
    /\ index_reader \in readers
    /\ internal_docid = 0
    /\ inverted_index = EmptyDict
    /\ documents = EmptyDict
    /\ pc = "build"
    /\ query = <<>>
    /\ max_results = DefaultMaxResults
    /\ results = <<>>

InitBuild == InitWith(Readers(Faults))

NextBuild == BuildDoc \/ BuildDone

SpecBuild == InitBuild /\ [][NextBuild]_vars

(* the stores whose every entry is read without a fault *)
Init == InitWith(Readers({"ok"}))

Next == BuildDoc \/ BuildDone \/ Search \/ Return

Spec == Init /\ [][Next]_vars

(***************************************************************************)
(* Vocabulary of the properties.                                           *)
(***************************************************************************)
Built == pc \in {"ready", "answered"}

(* search_boolean has returned `results` for `query` with the default limit *)
Answered == pc = "answered"
AnsweredByDefault == pc = "answered" /\ max_results = DefaultMaxResults

(* the postings set of a term, empty for a term the index does not hold *)
Postings(t) == IF t \in DOMAIN inverted_index THEN inverted_index[t] ELSE {}

AllPostedDocs == UNION {inverted_index[t] : t \in DOMAIN inverted_index}

(* the number embedded in a document id such as d15 *)
RECURSIVE ParseDecimal(_)
ParseDecimal(ds) ==
    IF ds = <<>> THEN 0
    ELSE ParseDecimal(SubSeq(ds, 1, Len(ds) - 1)) * 10
             + ((CHOOSE i \in 1..Len(DigitChars) : DigitChars[i] = ds[Len(ds)]) - 1)

NumericValue(id) == ParseDecimal(Tail(id))

(* a set of ids as the list in increasing numeric order *)
RECURSIVE NumericSorted(_)
NumericSorted(S) ==
    IF S = {} THEN <<>>
    ELSE LET least == CHOOSE x \in S :
                         \A y \in S : NumericValue(x) <= NumericValue(y)
         IN  <<least>> \o NumericSorted(S \ {least})

NoDuplicates(xs) == \A i, j \in 1..Len(xs) : i # j => xs[i] # xs[j]

SmallerOf(a, b) == IF a < b THEN a ELSE b

(* the inverted index and the document store that the build leaves for a   *)
(* store, computed entry by entry                                          *)
RECURSIVE IndexBuiltUpTo(_, _)
IndexBuiltUpTo(reader, n) ==
    IF n = 0 THEN EmptyDict
    ELSE IndexAfter(IndexBuiltUpTo(reader, n - 1), reader, n - 1)

RECURSIVE DocumentsBuiltUpTo(_, _)
DocumentsBuiltUpTo(reader, n) ==
    IF n = 0 THEN EmptyDict
    ELSE DocumentsAfter(DocumentsBuiltUpTo(reader, n - 1), reader, n - 1)

BuiltIndex(reader) == IndexBuiltUpTo(reader, Len(reader))
BuiltDocuments(reader) == DocumentsBuiltUpTo(reader, Len(reader))

InternalDocids == 0..(Len(index_reader) - 1)

AllTerms == DOMAIN inverted_index \cup UNION {NormalizedTerms(c) : c \in Contents}

(***************************************************************************)
(* C1: the list returned by search_boolean is in increasing order of the   *)
(* number embedded in each document id.                                    *)
(***************************************************************************)
C1_NumericOrder ==
    Answered =>
        \A i, j \in 1..Len(results) :
            i < j => NumericValue(results[i]) < NumericValue(results[j])

(***************************************************************************)
(* C2: with a result set of N documents and max_results >= 0, the list     *)
(* holds min(N, max_results) ids, without duplicates, all from the result  *)
(* set, and they are the first ones of the result in numeric order.        *)
(***************************************************************************)
ResultSetOfQuery ==
    IF Strip(query) = <<>> THEN {}
    ELSE ParseBooleanQuery(inverted_index, Strip(query)).docs

C2_TruncatesToFirstByNumber ==
    Answered =>
        /\ Len(results) = SmallerOf(Cardinality(ResultSetOfQuery), max_results)
        /\ NoDuplicates(results)
        /\ Range(results) \subseteq ResultSetOfQuery
        /\ results = Take(NumericSorted(ResultSetOfQuery), max_results)

(***************************************************************************)
(* C3: after the build, a document is in the postings of a term exactly    *)
(* when the term is one of the normalized terms of the document's content, *)
(* also for a document with empty content or without a term vector.        *)
(* Stated for the entries that the reader serves without raising, with the *)
(* content that the document store holds for them.                         *)
(***************************************************************************)
ServedWithoutRaise(internal) ==
    index_reader[internal + 1].fault
        \in {"ok", "doc_none", "contents_none", "vector_none"}

C3_PostingsIffTerm ==
    Built =>
        \A internal \in InternalDocids : \A t \in AllTerms :
            ServedWithoutRaise(internal) =>
                /\ CollectionDocid(internal) \in DOMAIN documents
                /\ CollectionDocid(internal) \in Postings(t)
                      <=> t \in NormalizedTerms(documents[CollectionDocid(internal)])

(***************************************************************************)
(* C4: two surface forms with the same stem of their lower-case form get   *)
(* the same list from search_boolean: the postings of the stemmed term.    *)
(***************************************************************************)
StemOfSurface(s) == PorterStem(Lower(s))

C4_SurfaceFormsAgree ==
    (AnsweredByDefault /\ query \in SurfaceForms) =>
        /\ Range(results) = Postings(StemOfSurface(query))
        /\ \A s2 \in SurfaceForms :
              StemOfSurface(s2) = StemOfSurface(query) =>
                  results = SearchBoolean(inverted_index, s2, max_results).results

(***************************************************************************)
(* C5: a malformed query yields the empty list: the empty string, a        *)
(* whitespace-only string, "a not", and every NOT query that does not      *)
(* split into exactly two operands.                                        *)
(***************************************************************************)
IsNotQuery(q) ==
    /\ ~Contains(q, SEP_and)
    /\ ~Contains(q, SEP_or)
    /\ Contains(q, SEP_not)

Malformed(rawquery) ==
    LET q == Strip(Lower(rawquery))
    IN  \/ q = <<>>
        \/ \E a \in TermWords : q = a \o Sp \o W_not
        \/ IsNotQuery(q) /\ Len(Split(q, SEP_not)) # 2

C5_MalformedYieldsEmpty ==
    (Answered /\ Malformed(query)) => results = <<>>

(* cat NOT dog NOT emu was asked with the default limit, of an index where *)
(* some document holds cat and not dog, and the answer is empty            *)
C5_Witness ==
    /\ AnsweredByDefault
    /\ query = Chain(<<W_cat, W_NOT, W_dog, W_NOT, W_emu>>)
    /\ Postings(W_cat) \ Postings(W_dog) # {}
    /\ results = <<>>

(***************************************************************************)
(* C6: precedence NOT > AND > OR: "a OR b AND c" returns                   *)
(* postings(a) union (postings(b) intersect postings(c)), and              *)
(* "a AND b OR c" returns (postings(a) intersect postings(b)) union        *)
(* postings(c).                                                            *)
(***************************************************************************)
C6_Precedence ==
    AnsweredByDefault =>
        \A a, b, c \in TermWords :
            /\ query = Chain(<<a, W_OR, b, W_AND, c>>) =>
                  Range(results) = Postings(a) \cup (Postings(b) \cap Postings(c))
            /\ query = Chain(<<a, W_AND, b, W_OR, c>>) =>
                  Range(results) = (Postings(a) \cap Postings(b)) \cup Postings(c)

(***************************************************************************)
(* C7: "a AND b" and "b AND a" return the same list, which is the          *)
(* intersection of postings(a) and postings(b) as a sorted list, for terms *)
(* present in or absent from the index.                                    *)
(***************************************************************************)
C7_AndCommutes ==
    Answered =>
        \A a, b \in TermWords :
            query = Chain(<<a, W_AND, b>>) =>
                /\ results = SearchBoolean(inverted_index,
                                           Chain(<<b, W_AND, a>>),
                                           max_results).results
                /\ max_results = DefaultMaxResults =>
                      /\ Range(results) = Postings(a) \cap Postings(b)
                      /\ Len(results) = Cardinality(Postings(a) \cap Postings(b))
                      /\ \A i, j \in 1..Len(results) :
                            i < j => StrLess(results[i], results[j])

(* cat AND dog was asked of an index where the two postings sets differ    *)
(* and share a document                                                    *)
C7_Witness ==
    /\ AnsweredByDefault
    /\ query = Chain(<<W_cat, W_AND, W_dog>>)
    /\ Postings(W_cat) # Postings(W_dog)
    /\ results # <<>>

(***************************************************************************)
(* C8: no search_boolean call changes the inverted index or the document   *)
(* store: after any sequence of calls both are what the build left, so the *)
(* answer to a query does not depend on the queries asked before it.       *)
(***************************************************************************)
C8_SearchNeverMutates ==
    Built =>
        /\ inverted_index = BuiltIndex(index_reader)
        /\ documents = BuiltDocuments(index_reader)
        /\ Answered =>
              results = SearchBoolean(BuiltIndex(index_reader),
                                      query, max_results).results

(* a term the index does not hold was looked up in a non-empty index *)
C8_Witness ==
    /\ Answered
    /\ query = W_emu
    /\ W_emu \notin DOMAIN inverted_index
    /\ DOMAIN inverted_index # {}

(***************************************************************************)
(* C9.  The conjunction of the " and "-separated terms of a text, and the  *)
(* postings of a text taken as one term.                                   *)
(***************************************************************************)
PostingsOfText(text) == Postings(Lower(Strip(text)))

ConjunctionOf(text) ==
    LET parts == Split(text, SEP_and)
    IN  {d \in AllPostedDocs : \A i \in 1..Len(parts) : d \in PostingsOfText(parts[i])}

NormalizedQuery == Strip(Lower(query))

(* C9 as claimed: a query containing " and not " is split once, at the     *)
(* first occurrence, into left and right, and returns eval(left) minus     *)
(* the postings of right taken as one term; so "a AND NOT b AND NOT c"     *)
(* returns postings(a).                                                    *)
C9_SplitAtFirstOccurrence ==
    (AnsweredByDefault /\ Contains(NormalizedQuery, SEP_and_not)) =>
        LET at == Find(NormalizedQuery, SEP_and_not, 1)
            left == SubSeq(NormalizedQuery, 1, at - 1)
            right == SubSeq(NormalizedQuery, at + Len(SEP_and_not),
                            Len(NormalizedQuery))
        IN  Range(results) = ConjunctionOf(left) \ PostingsOfText(right)

(* C9 as amended: a query containing " and not " is split at every         *)
(* occurrence; with exactly two parts left and right it returns            *)
(* eval(left) minus the postings of right taken as one term, and with more *)
(* than two parts (as in "a AND NOT b AND NOT c") it returns nothing.      *)
C9_SplitAtEveryOccurrence ==
    (AnsweredByDefault /\ Contains(NormalizedQuery, SEP_and_not)) =>
        LET parts == Split(NormalizedQuery, SEP_and_not)
        IN  IF Len(parts) = 2
            THEN Range(results) = ConjunctionOf(parts[1]) \ PostingsOfText(parts[2])
            ELSE results = <<>>

(* cat AND NOT dog AND NOT emu was asked of an index that holds cat, and   *)
(* the answer is empty                                                     *)
C9_Witness ==
    /\ AnsweredByDefault
    /\ query = Chain(<<W_cat, W_AND, W_NOT, W_dog, W_AND, W_NOT, W_emu>>)
    /\ Postings(W_cat) # {}
    /\ results = <<>>

(***************************************************************************)
(* C10: a document whose processing fails (id resolution, document fetch   *)
(* or term-vector fetch) still has a document-store slot with empty        *)
(* content and is in no postings set, and every other document is indexed  *)
(* as it would be had the failing entry been an empty document.            *)
(***************************************************************************)
Fails(internal) ==
    index_reader[internal + 1].fault
        \in {"convert_raises", "doc_raises", "vector_raises"}

(* the store with the entry at `internal` replaced by an empty document *)
WithoutFailure(reader, internal) ==
    [k \in 1..Len(reader) |->
        IF k = internal + 1 THEN [fault |-> "ok", contents |-> <<>>]
        ELSE reader[k]]

C10_FailureIsolated ==
    Built =>
        \A internal \in InternalDocids :
            Fails(internal) =>
                LET d == CollectionDocid(internal)
                    other == BuiltIndex(WithoutFailure(index_reader, internal))
                IN  /\ d \in DOMAIN documents
                    /\ documents[d] = <<>>
                    /\ d \notin AllPostedDocs
                    /\ \A t \in AllTerms :
                          Postings(t) \ {d}
                              = (IF t \in DOMAIN other THEN other[t] ELSE {}) \ {d}

====
